---- MODULE Spec2Model ----
(***************************************************************************)
(* Provenance-tracked ingestion pipeline of MarylandData (Hanover, ZCTA    *)
(* 21076): the Census collectors, the derived-metrics documents they       *)
(* write, the affordability analyzer and the provenance audit.             *)
(*                                                                         *)
(* JSON values are tagged records:                                         *)
(*   [t |-> "null"]                 JSON null / Python None                *)
(*   [t |-> "numstr", v |-> n]      a string holding the decimal text of n *)
(*   [t |-> "str", s |-> "..."]     a string int() cannot parse            *)
(*   [t |-> "int", v |-> n]         a JSON / Python integer                *)
(*   [t |-> "float", n, d, e]       the number n/d + e * 5*10^-7           *)
(* Floating-point rounding is not modelled: a float is the exact rational  *)
(* n/d, shifted by e half-tolerance steps of the audit's 1e-6 tolerance.   *)
(***************************************************************************)
EXTENDS Integers, Sequences, FiniteSets, TLC

VARIABLES
    clock,      \* UTC wall clock, in whole seconds
    raw,        \* data/raw/census: path -> payload of the raw artifact
    analysisRaw, \* analysis/data/raw: path -> payload of a raw artifact kept there
    baseline,   \* data/hanover_real_data.json (or Absent)
    csv,        \* data/hanover_metrics.csv (or Absent)
    empdoc,     \* data/real_employment_income.json (or Absent)
    report,     \* data/provenance_audit_report.md: its Overall line (or Absent)
    lastRun,    \* what the most recent operation was, was given and returned
    runs,       \* collector runs so far
    edited,     \* the user has edited the working directory by hand
    cv,         \* conversion of one raw value: [raw, by, out]
    af,         \* one call of analyze_real_affordability: [income, base, out]
    km,         \* one call of calculate_key_metrics: [acs, decennial, out]
    fc,         \* one call of a Raw Fetcher: [by, api_key, response, before, out]
    md          \* ingest_md_labor_release: [source, processed, exit]

vars == <<clock, raw, analysisRaw, baseline, csv, empdoc, report, lastRun, runs, edited,
          cv, af, km, fc, md>>

(***************************************************************************)
(* Values                                                                  *)
(***************************************************************************)
Null == [t |-> "null"]
NumStr(n) == [t |-> "numstr", v |-> n]
Str(s) == [t |-> "str", s |-> s]
JInt(n) == [t |-> "int", v |-> n]
JFloat(n, d, e) == [t |-> "float", n |-> n, d |-> d, e |-> e]

Absent == [t |-> "absent"]

IsNull(x) == x.t = "null"
IsInt(x) == x.t = "int"
IsNumber(x) == x.t \in {"int", "float"}

\* The three Census sentinel codes named by the fetchers.
Sentinel1 == -666666666
Sentinel2 == -888888888
Sentinel3 == -999999999
Sentinels == {Sentinel1, Sentinel2, Sentinel3}

\* Python truthiness of a JSON value: None, 0, 0.0 and "" are falsy.
Truthy(x) ==
    CASE x.t = "null" -> FALSE
      [] x.t = "int" -> x.v # 0
      [] x.t = "float" -> ~(x.n = 0 /\ x.e = 0)
      [] x.t = "str" -> x.s # ""
      [] OTHER -> TRUE

(***************************************************************************)
(* Raw value conversion, one operator per fetcher                          *)
(***************************************************************************)
\* raw_value in ['-666666666', '-888888888', '-999999999', None]: Python's
\* `in` compares with ==, so only the strings and None match, never an int.
InSentinelList(raw_value) ==
    \/ raw_value.t = "null"
    \/ raw_value.t = "numstr" /\ raw_value.v \in Sentinels

\* int(x): parses a decimal string, passes an int through, raises ValueError
\* on any other string and TypeError on None.
IntRaises(x) == x.t \in {"str", "null"}
IntOf(x) == JInt(x.v)

convert_acs5(raw_value) ==
    IF InSentinelList(raw_value) THEN Null
    ELSE IF IntRaises(raw_value) THEN raw_value
    ELSE IntOf(raw_value)

convert_decennial(raw_value) ==
    IF IntRaises(raw_value) THEN Null ELSE IntOf(raw_value)

convert_income(raw_value) ==
    IF InSentinelList(raw_value) THEN Null
    ELSE IF IntRaises(raw_value) THEN raw_value
    ELSE IntOf(raw_value)

convert_employment(raw_value) ==
    IF InSentinelList(raw_value) THEN Null
    ELSE IF IntRaises(raw_value) THEN raw_value
    ELSE IntOf(raw_value)

convert_census_value(value) ==
    IF value.t = "null" THEN Null
    ELSE IF value.t \in {"numstr", "str"} THEN
        IF value.t = "numstr" /\ value.v = 0 THEN JInt(0)
        ELSE IF value.t = "numstr" /\ value.v \in Sentinels THEN Null
        ELSE IF value.t = "str" THEN value
        ELSE IntOf(value)
    ELSE value

(***************************************************************************)
(* Dictionaries and numbers                                                *)
(***************************************************************************)
EmptyDict == [k \in {} |-> Null]

\* d.get(code, {}).get('value') / d.get(key): None when the key is absent.
Get(d, k) == IF k \in DOMAIN d THEN d[k] ELSE Null

\* A one-entry dictionary when cond holds, else nothing: `if cond: m[k] = v`.
Entry(cond, k, v) == IF cond THEN (k :> v) ELSE EmptyDict

None == Null
Raised == [t |-> "raised"]
Dict(m) == [t |-> "dict", m |-> m]

\* `x or 0`
OrZero(x) == IF Truthy(x) THEN x ELSE JInt(0)

(***************************************************************************)
(* Metric Calculator: calculate_key_metrics                                *)
(***************************************************************************)
\* What the code does when a block holds a string where it does arithmetic:
\* TypeError, which nothing in calculate_key_metrics or main catches.
growth_applies(total_pop, pop2020) == Truthy(pop2020) /\ Truthy(total_pop)

vacancy_applies(total_housing, occupied_owner, occupied_renter) ==
    Truthy(total_housing) /\ Truthy(occupied_owner) /\ Truthy(occupied_renter)

\* Faulty variant of ratio_applies: only None counts as missing.
ratio_applies_unless_none(median_income, median_home_value) ==
    ~IsNull(median_income) /\ ~IsNull(median_home_value)

\* if median_income and median_home_value
ratio_applies(median_income, median_home_value) ==
    Truthy(median_income) /\ Truthy(median_home_value)

key_metrics_raises(acs_data, dec_data, has_dec) ==
    LET total_pop == Get(acs_data, "B01003_001E")
        pop2020 == Get(dec_data, "P1_001N")
        th == Get(acs_data, "B25001_001E")
        oo == Get(acs_data, "B25003_002E")
        orr == Get(acs_data, "B25003_003E")
        mi == Get(acs_data, "B19013_001E")
        mhv == Get(acs_data, "B25077_001E")
        tw == Get(acs_data, "B08301_001E")
        pt == Get(acs_data, "B08301_010E")
        wfh == Get(acs_data, "B08301_021E")
        degrees == {OrZero(Get(acs_data, c)) :
                       c \in {"B15003_022E", "B15003_023E", "B15003_024E", "B15003_025E"}}
        IsStr(x) == x.t = "str"
    IN  \/ has_dec /\ growth_applies(total_pop, pop2020) /\ IsStr(total_pop)
        \/ vacancy_applies(th, oo, orr) /\ (IsStr(th) \/ IsStr(oo) \/ IsStr(orr))
        \/ ratio_applies(mi, mhv) /\ (IsStr(mi) \/ IsStr(mhv))
        \/ Truthy(tw) /\ ~IsNull(pt) /\ ~IsNull(wfh)
              /\ (IsStr(tw) \/ IsStr(pt) \/ IsStr(wfh))
        \/ Truthy(total_pop) /\ (IsStr(total_pop) \/ \E x \in degrees : IsStr(x))

\* (n / d) * 100, kept as the pair: with a Decennial sentinel as d the
\* product n * 100 does not fit the model's integers.
Percent(n, d) == [t |-> "percent", n |-> n, d |-> d]

vacancy_rate(total_housing, occupied_owner, occupied_renter) ==
    JFloat((total_housing.v - (occupied_owner.v + occupied_renter.v)) * 100,
           total_housing.v, 0)

key_metrics_dict(acs_data, dec_data, has_dec) ==
    LET total_pop == Get(acs_data, "B01003_001E")
        pop2020 == Get(dec_data, "P1_001N")
        th == Get(acs_data, "B25001_001E")
        oo == Get(acs_data, "B25003_002E")
        orr == Get(acs_data, "B25003_003E")
        mi == Get(acs_data, "B19013_001E")
        mhv == Get(acs_data, "B25077_001E")
        rent == Get(acs_data, "B25064_001E")
        tw == Get(acs_data, "B08301_001E")
        pt == Get(acs_data, "B08301_010E")
        wfh == Get(acs_data, "B08301_021E")
        bachelor == OrZero(Get(acs_data, "B15003_022E"))
        master == OrZero(Get(acs_data, "B15003_023E"))
        professional == OrZero(Get(acs_data, "B15003_024E"))
        doctorate == OrZero(Get(acs_data, "B15003_025E"))
        growth == has_dec /\ growth_applies(total_pop, pop2020)
        vac == vacancy_applies(th, oo, orr)
        pti == ratio_applies(mi, mhv)
        transit == Truthy(tw) /\ ~IsNull(pt) /\ ~IsNull(wfh)
    IN  Entry(Truthy(total_pop), "population_2023", total_pop)
        @@ Entry(growth, "population_2020", pop2020)
        @@ (IF growth
            THEN "growth_rate" :> Percent(total_pop.v - pop2020.v, pop2020.v)
            ELSE EmptyDict)
        @@ (IF vac
            THEN ("vacancy_rate" :> vacancy_rate(th, oo, orr))
                 @@ ("total_housing_units" :> th)
                 @@ ("occupied_units" :> JInt(oo.v + orr.v))
            ELSE EmptyDict)
        @@ (IF pti
            THEN ("median_income" :> mi)
                 @@ ("median_home_value" :> mhv)
                 @@ ("price_to_income_ratio" :> JFloat(mhv.v, mi.v, 0))
                 @@ ("affordable_home_price" :> JInt(mi.v * 3))
            ELSE EmptyDict)
        @@ Entry(Truthy(rent), "median_gross_rent", rent)
        @@ (IF transit
            THEN ("total_workers" :> tw)
                 @@ ("public_transit_rate" :> JFloat(pt.v * 100, tw.v, 0))
                 @@ ("work_from_home_rate" :> JFloat(wfh.v * 100, tw.v, 0))
            ELSE EmptyDict)
        @@ (IF Truthy(total_pop)
            THEN "college_plus_rate" :>
                    JFloat((bachelor.v + master.v + professional.v + doctorate.v) * 100,
                           total_pop.v, 0)
            ELSE EmptyDict)

\* acs and decennial are None or [t |-> "fetch", data, provenance];
\* housing_data is always None (get_maryland_housing_data).
calculate_key_metrics(acs, decennial) ==
    IF acs = None THEN None
    ELSE LET has_dec == decennial # None
             dec_data == IF has_dec THEN decennial.data ELSE EmptyDict
         IN  IF key_metrics_raises(acs.data, dec_data, has_dec) THEN Raised
             ELSE Dict(key_metrics_dict(acs.data, dec_data, has_dec))

(***************************************************************************)
(* Affordability Analyzer: analyze_real_affordability                      *)
(***************************************************************************)
TopBracketIncome == 300000

\* income_brackets: (variable, upper-bound income), in the code's order.
income_brackets ==
    << <<"B19001_002E", 10000>>, <<"B19001_003E", 14999>>, <<"B19001_004E", 19999>>,
       <<"B19001_005E", 24999>>, <<"B19001_006E", 29999>>, <<"B19001_007E", 34999>>,
       <<"B19001_008E", 39999>>, <<"B19001_009E", 44999>>, <<"B19001_010E", 49999>>,
       <<"B19001_011E", 59999>>, <<"B19001_012E", 74999>>, <<"B19001_013E", 99999>>,
       <<"B19001_014E", 124999>>, <<"B19001_015E", 149999>>, <<"B19001_016E", 199999>>,
       <<"B19001_017E", TopBracketIncome>> >>

\* isinstance(x, (int, float))
IsIntOrFloat(x) == x.t \in {"int", "float"}

\* Faulty variant of required_annual_income: the rent is taken whenever it is
\* there, the mortgage proxy only without it.
required_annual_income_rent_first(median_home_value, median_gross_rent) ==
    IF IsIntOrFloat(median_gross_rent) /\ Truthy(median_gross_rent)
    THEN [n |-> 40 * median_gross_rent.v, d |-> 1]
    ELSE IF IsIntOrFloat(median_home_value) /\ Truthy(median_home_value)
    THEN [n |-> 240 * median_home_value.v, d |-> 1000]
    ELSE None

\* monthly_housing_cost * 12 / 0.30 as the exact fraction n/d (d > 0):
\* rent r gives 40 r; the PITI proxy 0.006 * home value gives 240 h / 1000.
\* max(monthly_rent, monthly_piti) keeps the rent when the two are equal.
required_annual_income(median_home_value, median_gross_rent) ==
    LET has_rent == IsIntOrFloat(median_gross_rent) /\ Truthy(median_gross_rent)
        has_piti == IsIntOrFloat(median_home_value) /\ Truthy(median_home_value)
        from_rent == [n |-> 40 * median_gross_rent.v, d |-> 1]
        from_piti == [n |-> 240 * median_home_value.v, d |-> 1000]
    IN  IF has_rent /\ has_piti
        THEN IF 6 * median_home_value.v > 1000 * median_gross_rent.v
             THEN from_piti ELSE from_rent
        ELSE IF has_rent THEN from_rent
        ELSE IF has_piti THEN from_piti
        ELSE None

\* Faulty variant of bracket_can_afford: the open-ended top bracket affords
\* any price.
bracket_can_afford_open_top(max_income, required) ==
    max_income = TopBracketIncome \/ max_income * required.d >= required.n

\* max_income >= required_annual_income
bracket_can_afford(max_income, required) == max_income * required.d >= required.n

\* The loop over income_brackets from bracket i on, given the counts so far.
\* households > 0 raises TypeError on a string; so does the percentage when
\* total_households is a string.
\* Faulty variant of classify_from: the households of a bracket below the
\* required income are not counted.
RECURSIVE classify_from_affordable_only(_, _, _, _, _, _)
classify_from_affordable_only(i, block, total_households, required, can_afford, cannot_afford) ==
    IF i > Len(income_brackets)
    THEN [raised |-> FALSE, can_afford |-> can_afford, cannot_afford |-> cannot_afford]
    ELSE LET households == OrZero(Get(block, income_brackets[i][1]))
             max_income == income_brackets[i][2]
         IN  IF households.t = "str"
                  \/ (households.v > 0 /\ total_households.t = "str")
             THEN [raised |-> TRUE, can_afford |-> can_afford, cannot_afford |-> cannot_afford]
             ELSE IF bracket_can_afford(max_income, required)
             THEN classify_from_affordable_only(i + 1, block, total_households, required,
                                                can_afford + households.v, cannot_afford)
             ELSE classify_from_affordable_only(i + 1, block, total_households, required,
                                                can_afford, cannot_afford)

RECURSIVE classify_from(_, _, _, _, _, _)
classify_from(i, block, total_households, required, can_afford, cannot_afford) ==
    IF i > Len(income_brackets)
    THEN [raised |-> FALSE, can_afford |-> can_afford, cannot_afford |-> cannot_afford]
    ELSE LET households == OrZero(Get(block, income_brackets[i][1]))
             max_income == income_brackets[i][2]
         IN  IF households.t = "str"
                  \/ (households.v > 0 /\ total_households.t = "str")
             THEN [raised |-> TRUE, can_afford |-> can_afford, cannot_afford |-> cannot_afford]
             ELSE IF bracket_can_afford(max_income, required)
             THEN classify_from(i + 1, block, total_households, required,
                                can_afford + households.v, cannot_afford)
             ELSE classify_from(i + 1, block, total_households, required,
                                can_afford, cannot_afford + households.v)

\* income_data is None or a fetch result; the two baseline values are what
\* the analyzer read from calculated_metrics of the baseline document (None
\* when the file is missing, unreadable or lacks them).
analyze_real_affordability(income_data, median_home_value, median_gross_rent) ==
    IF income_data = None THEN None
    ELSE LET required == required_annual_income(median_home_value, median_gross_rent)
             block == income_data.data
             total_households == Get(block, "B19001_001E")
         IN  IF required = None THEN None
             ELSE IF ~Truthy(total_households) THEN None
             ELSE LET r == classify_from(1, block, total_households, required, 0, 0)
                  IN  IF r.raised \/ total_households.t = "str" THEN Raised
                      ELSE [t |-> "classification",
                            required_income |-> required,
                            can_afford |-> r.can_afford,
                            cannot_afford |-> r.cannot_afford,
                            can_afford_percentage |->
                                JFloat(r.can_afford * 100, total_households.v, 0),
                            cannot_afford_percentage |->
                                JFloat(r.cannot_afford * 100, total_households.v, 0),
                            total_households |-> total_households.v,
                            median_home_value_used |-> median_home_value,
                            median_gross_rent_used |-> median_gross_rent]

(***************************************************************************)
(* Raw Store and Raw Fetchers                                              *)
(*                                                                         *)
(* An API response is [t |-> "error"] (the request raised, timed out or    *)
(* returned an HTTP error), [t |-> "short"] (fewer than two rows) or       *)
(* [t |-> "ok", values |-> code -> raw value] (header row and value row,   *)
(* aligned).  A raw artifact's path is its label and the second in its     *)
(* file name; its content is the response's values.  Of a provenance the   *)
(* model keeps retrieved_at (in seconds) and raw_saved_to: endpoint, year, *)
(* variables and geography are constants of each fetcher.                  *)
(***************************************************************************)
AcsLabel == "acs5_2023_zcta21076"
DecennialLabel == "decennial_2020_pl_zcta21076"
IncomeLabel == "acs5_2023_B19001_zcta21076"
EmploymentLabel == "acs5_2023_C24010_zcta21076"

AcsVariables ==
    {"B01003_001E", "B19013_001E", "B25077_001E", "B25064_001E", "B25001_001E",
     "B25003_002E", "B25003_003E", "B25004_001E", "B08301_001E", "B08301_010E",
     "B08301_021E", "B08303_001E", "B15003_022E", "B15003_023E", "B15003_024E",
     "B15003_025E"}
DecennialVariables == {"P1_001N"}
IncomeVariables == {"B19001_001E"} \cup {income_brackets[i][1] : i \in 1..Len(income_brackets)}
EmploymentVariables ==
    {"C24010_001E", "C24010_002E", "C24010_003E", "C24010_004E", "C24010_005E",
     "C24010_006E"}

\* Faulty variant of raw_path: the file name carries the label only.
raw_path_without_timestamp(label, ts) == [label |-> label, ts |-> 0]

\* fname = f"{label}_{ts}.json" under data/raw/census
raw_path(label, ts) == [label |-> label, ts |-> ts]

\* Faulty variant of _save_raw: the path is returned but nothing is written.
_save_raw_unwritten(files, payload, label, ts) == files

\* open(fpath, 'w'); json.dump(payload): creates the file or replaces its content.
_save_raw(files, payload, label, ts) == (raw_path(label, ts) :> payload) @@ files

_save_raw_employment(files, payload, label, ts) == (raw_path(label, ts) :> payload) @@ files

provenance_of(saved_path, now) == [retrieved_at |-> now, raw_saved_to |-> saved_path]

Fetched(data, provenance) == [t |-> "fetch", data |-> data, provenance |-> provenance]

\* Each fetcher: the credential test, the one requests.get, the row test,
\* the conversion loop, _save_raw at second ts, the provenance at second now.
\* Returns the fetcher's result, the raw directory it leaves and the number
\* of HTTP requests it made.
\* Faulty variant of get_census_acs5: the response is cached before the row
\* test, so a failed request leaves an artifact behind.
get_census_acs5_saving_first(files, api_key, response, ts, now) ==
    IF ~api_key THEN [result |-> None, files |-> files, requests |-> 0]
    ELSE IF response.t # "ok"
    THEN [result |-> None,
          files |-> _save_raw(files, EmptyDict, AcsLabel, ts),
          requests |-> 1]
    ELSE [result |-> Fetched(
                [c \in DOMAIN response.values \cap AcsVariables |->
                    convert_acs5(response.values[c])],
                provenance_of(raw_path(AcsLabel, ts), now)),
          files |-> _save_raw(files, response.values, AcsLabel, ts),
          requests |-> 1]

get_census_acs5(files, api_key, response, ts, now) ==
    IF ~api_key THEN [result |-> None, files |-> files, requests |-> 0]
    ELSE IF response.t # "ok" THEN [result |-> None, files |-> files, requests |-> 1]
    ELSE [result |-> Fetched(
                [c \in DOMAIN response.values \cap AcsVariables |->
                    convert_acs5(response.values[c])],
                provenance_of(raw_path(AcsLabel, ts), now)),
          files |-> _save_raw(files, response.values, AcsLabel, ts),
          requests |-> 1]

get_census_decennial_2020(files, api_key, response, ts, now) ==
    IF ~api_key THEN [result |-> None, files |-> files, requests |-> 0]
    ELSE IF response.t # "ok" THEN [result |-> None, files |-> files, requests |-> 1]
    ELSE [result |-> Fetched(
                [c \in DOMAIN response.values \cap DecennialVariables |->
                    convert_decennial(response.values[c])],
                provenance_of(raw_path(DecennialLabel, ts), now)),
          files |-> _save_raw(files, response.values, DecennialLabel, ts),
          requests |-> 1]

get_detailed_income_distribution(files, api_key, response, ts, now) ==
    IF ~api_key THEN [result |-> None, files |-> files, requests |-> 0]
    ELSE IF response.t # "ok" THEN [result |-> None, files |-> files, requests |-> 1]
    ELSE [result |-> Fetched(
                [c \in DOMAIN response.values \cap IncomeVariables |->
                    convert_income(response.values[c])],
                provenance_of(raw_path(IncomeLabel, ts), now)),
          files |-> _save_raw_employment(files, response.values, IncomeLabel, ts),
          requests |-> 1]

get_employment_by_industry(files, api_key, response, ts, now) ==
    IF ~api_key THEN [result |-> None, files |-> files, requests |-> 0]
    ELSE IF response.t # "ok" THEN [result |-> None, files |-> files, requests |-> 1]
    ELSE [result |-> Fetched(
                [c \in DOMAIN response.values \cap EmploymentVariables |->
                    convert_employment(response.values[c])],
                provenance_of(raw_path(EmploymentLabel, ts), now)),
          files |-> _save_raw_employment(files, response.values, EmploymentLabel, ts),
          requests |-> 1]

(***************************************************************************)
(* Derived documents                                                       *)
(***************************************************************************)
\* `if metrics:` -- a non-empty dict
MetricsTruthy(metrics) == metrics.t = "dict" /\ DOMAIN metrics.m # {}

\* save_results: the document it dumps (collection_timestamp, the fixed
\* geographic_area and data_sources texts and the always-null
\* housing_development_data are left out).
save_results_doc(acs, decennial, metrics) ==
    [t |-> "doc",
     raw_census_acs5 |-> acs,
     raw_census_decennial |-> decennial,
     calculated_metrics |-> metrics]

save_results_csv(old_csv, metrics) ==
    IF MetricsTruthy(metrics) THEN [t |-> "csv", row |-> metrics.m] ELSE old_csv

\* The two baseline values analyze_real_affordability reads (lines 193-203):
\* None when the file is missing or calculated_metrics is not a dict.
read_baseline(doc) ==
    IF doc.t # "doc" THEN [median_home_value |-> None, median_gross_rent |-> None]
    ELSE IF doc.calculated_metrics.t # "dict"
    THEN [median_home_value |-> None, median_gross_rent |-> None]
    ELSE [median_home_value |-> Get(doc.calculated_metrics.m, "median_home_value"),
          median_gross_rent |-> Get(doc.calculated_metrics.m, "median_gross_rent")]

DataOf(fetch) == IF fetch = None THEN None ELSE Dict(fetch.data)
ProvenanceOf(fetch) == IF fetch = None THEN None ELSE fetch.provenance

employment_results_doc(income_data, employment_data, affordability) ==
    [t |-> "doc",
     income_distribution |-> DataOf(income_data),
     employment_by_industry |-> DataOf(employment_data),
     affordability_analysis |-> affordability,
     income_provenance |-> ProvenanceOf(income_data),
     employment_provenance |-> ProvenanceOf(employment_data)]

(***************************************************************************)
(* Audit Tool: audit_provenance.py                                         *)
(***************************************************************************)
Abs(x) == IF x < 0 THEN -x ELSE x

\* A number as n/d + e * 5*10^-7 with d > 0.
AsRat(x) ==
    IF x.t = "int" THEN [n |-> x.v, d |-> 1, e |-> 0]
    ELSE IF x.d < 0 THEN [n |-> -x.n, d |-> -x.d, e |-> x.e]
    ELSE [n |-> x.n, d |-> x.d, e |-> x.e]

\* Faulty variant of WithinTolerance: the tolerance is 1e-5.
WithinToleranceLoose(x, y) ==
    LET a == AsRat(x)
        b == AsRat(y)
        q == a.n * b.d - b.n * a.d
        m == a.d * b.d
        k == a.e - b.e
    IN  IF Abs(q) >= m * (Abs(k) + 2) THEN FALSE
        ELSE Abs(2000000 * q + k * m) < 20 * m

\* abs(x - y) < 1e-6, exactly: with q/m the difference of the fractions and k
\* half-tolerance steps between them, |2*10^6 q + k m| < 2 m.  The first test
\* only keeps the product small: there the difference is at least 2.
WithinTolerance(x, y) ==
    LET a == AsRat(x)
        b == AsRat(y)
        q == a.n * b.d - b.n * a.d
        m == a.d * b.d
        k == a.e - b.e
    IN  IF Abs(q) >= m * (Abs(k) + 2) THEN FALSE
        ELSE Abs(2000000 * q + k * m) < 2 * m

Line(check, pass) == <<[check |-> check, pass |-> pass]>>

\* Lines 69-103: one provenance block of the baseline document.
provenance_block_lines(block, files, present_check, raw_check) ==
    LET has == block.t = "fetch"
    IN  Line(present_check, has)
        \o (IF has THEN Line(raw_check, block.provenance.raw_saved_to \in DOMAIN files)
            ELSE <<>>)

\* Lines 105-145: the metric cross-checks, inside one try block.
cross_check_lines(doc) ==
    LET metrics == IF doc.calculated_metrics.t = "dict"
                   THEN doc.calculated_metrics.m ELSE EmptyDict
        acs == doc.raw_census_acs5
        acs_data == IF acs.t = "fetch" THEN acs.data ELSE EmptyDict
        pop_raw == Get(acs_data, "B01003_001E")
        pop_metric == Get(metrics, "population_2023")
        pop_checked == ~IsNull(pop_raw) /\ ~IsNull(pop_metric)
        pop_error == pop_checked /\ (pop_raw.t = "str" \/ pop_metric.t = "str")
        mhv == Get(metrics, "median_home_value")
        mhi == Get(metrics, "median_income")
        pti == Get(metrics, "price_to_income_ratio")
        pti_checked == IsIntOrFloat(mhv) /\ IsIntOrFloat(mhi) /\ IsIntOrFloat(pti)
                          /\ Truthy(mhi)
        total_housing == Get(acs_data, "B25001_001E")
        owner_occ == Get(acs_data, "B25003_002E")
        renter_occ == Get(acs_data, "B25003_003E")
        vacancy_metric == Get(metrics, "vacancy_rate")
        vac_checked == IsIntOrFloat(total_housing) /\ IsIntOrFloat(owner_occ)
                          /\ IsIntOrFloat(renter_occ) /\ IsIntOrFloat(vacancy_metric)
        vac_error == vac_checked /\ total_housing.v = 0
    IN  IF pop_error THEN Line("ERROR during metric cross-checks", FALSE)
        ELSE (IF pop_checked
              THEN Line("population_2023 matches raw B01003_001E", pop_raw.v = pop_metric.v)
              ELSE <<>>)
             \o (IF pti_checked
                 THEN Line("price_to_income_ratio consistent",
                           WithinTolerance(JFloat(mhv.v, mhi.v, 0), pti))
                 ELSE <<>>)
             \o (IF vac_error THEN Line("ERROR during metric cross-checks", FALSE)
                 ELSE IF vac_checked
                 THEN Line("vacancy_rate consistent with raw B25001/B25003",
                           WithinTolerance(vacancy_rate(total_housing, owner_occ, renter_occ),
                                           vacancy_metric))
                 ELSE <<>>)

AllPass(lines) == \A i \in 1..Len(lines) : lines[i].pass

\* A file that is there but is not a JSON object: _read_json gives None or a
\* value that is not a dict.
Unparseable == [t |-> "unparseable"]

\* A JSON object whose provenance member is null.
NullProvenanceBlock == [t |-> "dict", provenance |-> Null]

audit_hanover_real_data(doc, files) ==
    IF doc.t = "absent"
    THEN [ok |-> FALSE, lines |-> Line("data/hanover_real_data.json exists", FALSE)]
    ELSE IF doc.t # "doc"
    THEN [ok |-> FALSE, lines |-> Line("data/hanover_real_data.json exists", TRUE)]
    ELSE LET lines == Line("data/hanover_real_data.json exists", TRUE)
                      \o provenance_block_lines(doc.raw_census_acs5, files,
                             "ACS block present with provenance",
                             "Referenced raw ACS file exists")
                      \o provenance_block_lines(doc.raw_census_decennial, files,
                             "Decennial block present with provenance",
                             "Referenced raw Decennial file exists")
                      \o cross_check_lines(doc)
         IN  [ok |-> AllPass(lines), lines |-> lines]

\* baseline_exists: the affordability block's baseline_metrics_path is always
\* data/hanover_real_data.json, and os.path.exists does not parse the file.
\* prov = (affordability or {}).get('provenance', {}) is None when the block
\* holds "provenance": null, and prov.get then raises AttributeError.
audit_real_employment_income(doc, baseline_doc) ==
    IF doc.t = "absent"
    THEN [ok |-> FALSE, raised |-> FALSE,
          lines |-> Line("data/real_employment_income.json exists", FALSE)]
    ELSE IF doc.t # "doc"
    THEN [ok |-> FALSE, raised |-> FALSE,
          lines |-> Line("data/real_employment_income.json exists", TRUE)]
    ELSE LET has_core == /\ doc.income_distribution.t = "dict"
                         /\ doc.employment_by_industry.t = "dict"
                         /\ doc.affordability_analysis.t \in {"classification", "dict"}
             prov_is_none == doc.affordability_analysis = NullProvenanceBlock
             baseline_exists == /\ doc.affordability_analysis.t = "classification"
                                /\ baseline_doc.t # "absent"
             head == Line("data/real_employment_income.json exists", TRUE)
                     \o Line("Contains income, employment, affordability blocks", has_core)
             lines == head
                      \o Line("Affordability provenance baseline path exists", baseline_exists)
         IN  IF prov_is_none
             THEN [ok |-> FALSE, raised |-> TRUE, lines |-> head]
             ELSE [ok |-> AllPass(lines), raised |-> FALSE, lines |-> lines]

\* main when audit_real_employment_income raised: the traceback ends the
\* process with status 1 before the scan and before the report is written.
audit_main_raised(a1, a2) ==
    [op |-> "audit_main", outcome |-> "raised",
     ok1 |-> a1.ok, lines1 |-> a1.lines,
     ok2 |-> FALSE, lines2 |-> a2.lines,
     discovered |-> 0, misplaced |-> {}, duplicates |-> {}, pairs |-> <<>>,
     overall |-> "none",
     exit |-> 1]

DataRawDir == "data/raw"
AnalysisRawDir == "analysis/data/raw"

Located(dir, path) == [dir |-> dir, path |-> path]

\* The order in which os.walk lists a set of files: one fixed order.
RECURSIVE Listing(_)
Listing(S) ==
    IF S = {} THEN <<>>
    ELSE LET x == CHOOSE x \in S : TRUE IN <<x>> \o Listing(S \ {x})

\* for i in range(len(paths)): for j in range(i + 1, len(paths)): (paths[i], paths[j])
RECURSIVE unique_pairs(_, _, _)
unique_pairs(paths, i, j) ==
    IF i >= Len(paths) THEN <<>>
    ELSE IF j > Len(paths) THEN unique_pairs(paths, i + 1, i + 2)
    ELSE <<<<paths[i], paths[j]>>>> \o unique_pairs(paths, i, j + 1)

\* Faulty variant of duplicate_pairs: the pairs of a group are listed again
\* at each of its members.
RECURSIVE duplicate_pairs_per_member(_, _, _)
duplicate_pairs_per_member(found, content, k) ==
    IF k > Len(found) THEN <<>>
    ELSE LET Same(f) == content[f] = content[found[k]]
             paths == SelectSeq(found, Same)
         IN  (IF Len(paths) > 1 THEN unique_pairs(paths, 1, 2) ELSE <<>>)
                \o duplicate_pairs_per_member(found, content, k + 1)

\* by_hash groups the files by content hash, in the order of the first file
\* of each group; every group of more than one file gives its pairs.
RECURSIVE duplicate_pairs(_, _, _)
duplicate_pairs(found, content, k) ==
    IF k > Len(found) THEN <<>>
    ELSE LET Same(f) == content[f] = content[found[k]]
             paths == SelectSeq(found, Same)
             first == \A i \in 1..(k - 1) : ~Same(found[i])
         IN  (IF first /\ Len(paths) > 1 THEN unique_pairs(paths, 1, 2) ELSE <<>>)
                \o duplicate_pairs(found, content, k + 1)

\* scan_raw_files: the .json and .md files under data/raw and then under
\* analysis/data/raw; those whose path starts with analysis/data/raw are
\* misplaced; the files of equal sha256 are paired.
scan_raw_files(files, analysis_files) ==
    LET found == Listing({Located(DataRawDir, p) : p \in DOMAIN files})
                    \o Listing({Located(AnalysisRawDir, p) : p \in DOMAIN analysis_files})
        content == [f \in {found[i] : i \in 1..Len(found)} |->
                       IF f.dir = DataRawDir THEN files[f.path] ELSE analysis_files[f.path]]
        pairs == duplicate_pairs(found, content, 1)
    IN  [discovered |-> Len(found),
         misplaced |-> {found[i] : i \in {k \in 1..Len(found) : found[k].dir = AnalysisRawDir}},
         pairs |-> pairs,
         duplicates |-> {{pairs[i][1], pairs[i][2]} : i \in 1..Len(pairs)}]

\* Faulty variant of audit_main: a misplaced or duplicate raw file fails the audit.
audit_main_strict(baseline_doc, employment_doc, files, analysis_files) ==
    LET a1 == audit_hanover_real_data(baseline_doc, files)
        a2 == audit_real_employment_income(employment_doc, baseline_doc)
        scan == scan_raw_files(files, analysis_files)
        overall_ok == a1.ok /\ a2.ok /\ scan.misplaced = {} /\ scan.duplicates = {}
    IN  IF a2.raised THEN audit_main_raised(a1, a2) ELSE
        [op |-> "audit_main", outcome |-> "returned",
         ok1 |-> a1.ok, lines1 |-> a1.lines,
         ok2 |-> a2.ok, lines2 |-> a2.lines,
         discovered |-> scan.discovered,
         misplaced |-> scan.misplaced, duplicates |-> scan.duplicates,
         pairs |-> scan.pairs,
         overall |-> IF overall_ok THEN "PASS" ELSE "WARN/FAIL",
         exit |-> IF overall_ok THEN 0 ELSE 1]

\* main: both audits, the scan of the raw directories, the Overall line of
\* the report, the exit code.
audit_main(baseline_doc, employment_doc, files, analysis_files) ==
    LET a1 == audit_hanover_real_data(baseline_doc, files)
        a2 == audit_real_employment_income(employment_doc, baseline_doc)
        scan == scan_raw_files(files, analysis_files)
        overall_ok == a1.ok /\ a2.ok
    IN  IF a2.raised THEN audit_main_raised(a1, a2) ELSE
        [op |-> "audit_main", outcome |-> "returned",
         ok1 |-> a1.ok, lines1 |-> a1.lines,
         ok2 |-> a2.ok, lines2 |-> a2.lines,
         discovered |-> scan.discovered,
         misplaced |-> scan.misplaced, duplicates |-> scan.duplicates,
         pairs |-> scan.pairs,
         overall |-> IF overall_ok THEN "PASS" ELSE "WARN/FAIL",
         exit |-> IF overall_ok THEN 0 ELSE 1]

(***************************************************************************)
(* tidy_raw_files: move raw artifacts from analysis/data/raw to data/raw   *)
(*                                                                         *)
(* A file's path relative to its raw directory is the record raw_path      *)
(* gives; the name base_from_analysis_k.ext is the same record with the    *)
(* suffix numbers k in a from_analysis field.                              *)
(***************************************************************************)
\* f"{base}_from_analysis_{suffix}{ext}"
with_suffix(path, suffix) ==
    IF "from_analysis" \in DOMAIN path
    THEN [path EXCEPT !.from_analysis = @ \o <<suffix>>]
    ELSE [label |-> path.label, ts |-> path.ts, from_analysis |-> <<suffix>>]

\* Faulty variant of identical_at_destination: the contents are not compared.
identical_uncompared(files, rel, content) == FALSE

\* os.path.exists(dst_path) and _hash(src_path) == _hash(dst_path)
identical_at_destination(files, rel, content) ==
    rel \in DOMAIN files /\ files[rel] = content

\* Faulty variant of destination_path: the file goes to its own name even
\* when that name is taken.
destination_path_same_name(files, rel) == rel

\* dst_path: the same relative path under data/raw, or, when that exists,
\* the first free name with a _from_analysis_ suffix.
destination_path(files, rel) ==
    IF rel \notin DOMAIN files THEN rel
    ELSE with_suffix(rel, CHOOSE suffix \in 1..(Cardinality(DOMAIN files) + 1) :
                        /\ with_suffix(rel, suffix) \notin DOMAIN files
                        /\ \A k \in 1..(suffix - 1) : with_suffix(rel, k) \in DOMAIN files)

\* The loop of main over the files os.walk lists under analysis/data/raw.
RECURSIVE tidy_walk(_, _, _, _, _)
tidy_walk(todo, files, analysis_files, moved, skipped) ==
    IF todo = <<>>
    THEN [files |-> files, analysis_files |-> analysis_files,
          moved |-> moved, skipped |-> skipped]
    ELSE LET rel == Head(todo)
             content == analysis_files[rel]
             dst_path == destination_path(files, rel)
         IN  IF identical_at_destination(files, rel, content)
             THEN tidy_walk(Tail(todo), files, analysis_files, moved, skipped + 1)
             ELSE tidy_walk(Tail(todo),
                            (dst_path :> content) @@ [q \in DOMAIN files \ {dst_path} |-> files[q]],
                            [q \in DOMAIN analysis_files \ {rel} |-> analysis_files[q]],
                            moved + 1, skipped)

\* main, with the order in which os.walk lists the files of
\* analysis/data/raw: nothing to do without that directory; exit code 0
\* either way.
tidy_main(files, analysis_files, listing) ==
    LET r == tidy_walk(listing, files, analysis_files, 0, 0)
    IN  [op |-> "tidy_main", outcome |-> "returned", exit |-> 0,
         files |-> r.files, analysis_files |-> r.analysis_files,
         moved |-> r.moved, skipped |-> r.skipped,
         files_before |-> files, analysis_before |-> analysis_files]

(***************************************************************************)
(* ingest_md_labor_release: the August 2025 release text to a JSON file    *)
(*                                                                         *)
(* The release text is the record of what each search of main finds in     *)
(* it: for a number, Null (no match), the matched digits as a numstr, or   *)
(* a match of commas only, Str(","); for a rate, Null or the float; for a  *)
(* sector list, Null (no header), or the list of the entries parsed under  *)
(* the header.                                                             *)
(***************************************************************************)
IntMetrics == {"jobs_change_total", "federal_jobs_change", "federal_jobs_change_ytd"}
FloatMetrics == {"unemployment_rate", "national_unemployment_rate"}
SectorLists == {"top_gainers", "top_losers"}

\* extract_int: ValueError without a match, and from int() on a match that
\* holds no digit.
extract_int_raises(match) == match = Null \/ IntRaises(match)
extract_int(match) == IntOf(match)

\* extract_float: ValueError without a match.
extract_float_raises(match) == match = Null

\* extract_sector_changes: ValueError without the header, and when no entry
\* was parsed under it.
EntryList(entries) == [t |-> "list", entries |-> entries]
extract_sector_changes_raises(blob) == blob = Null \/ blob.entries = <<>>

\* Faulty variant of extraction_raises: the sector lists are optional.
extraction_raises_metrics_only(text) ==
    \/ \E m \in IntMetrics : extract_int_raises(text[m])
    \/ \E m \in FloatMetrics : extract_float_raises(text[m])

\* One of the seven extractions of main raises.
extraction_raises(text) ==
    \/ \E m \in IntMetrics : extract_int_raises(text[m])
    \/ \E m \in FloatMetrics : extract_float_raises(text[m])
    \/ \E l \in SectorLists : extract_sector_changes_raises(text[l])

\* The document main dumps (source_url and period are fixed texts).
ingest_out(text, retrieved_at) ==
    [t |-> "doc",
     retrieved_at |-> retrieved_at,
     highlights |-> [m \in IntMetrics \cup FloatMetrics |->
                        IF m \in IntMetrics THEN extract_int(text[m]) ELSE text[m]],
     top_gainers |-> text.top_gainers,
     top_losers |-> text.top_losers]

\* The script: main inside try / except Exception: sys.exit(1).  source is
\* data/raw/mlraug2025.md (Absent or its text), processed is
\* data/processed/mlraug2025.json before the run.
ingest_main(source, processed, retrieved_at) ==
    IF source = Absent \/ extraction_raises(source)
    THEN [exit |-> 1, wrote |-> FALSE, processed |-> processed]
    ELSE [exit |-> 0, wrote |-> TRUE, processed |-> ingest_out(source, retrieved_at)]

(***************************************************************************)
(* Idle values of the state a specification does not exercise              *)
(***************************************************************************)
NoFiles == [p \in {} |-> Null]
Idle == [op |-> "none"]

PipelineIdle ==
    /\ clock = 0
    /\ raw = NoFiles
    /\ analysisRaw = NoFiles
    /\ baseline = Absent
    /\ csv = Absent
    /\ empdoc = Absent
    /\ report = Absent
    /\ lastRun = Idle
    /\ runs = 0
    /\ edited = FALSE

\* The raw artifacts a run replaced: there before, with other content after.
Overwritten(before, after) ==
    {p \in DOMAIN before \cap DOMAIN after : after[p] # before[p]}

pipelineVars == <<clock, raw, analysisRaw, baseline, csv, empdoc, report, lastRun, runs, edited>>

(***************************************************************************)
(* SpecConv: every converter applied to every raw value the API can return *)
(***************************************************************************)
MaxRawInt == 8

RawValues ==
    {Null, Str("N/A"), Str("12.5"), Str("")}
        \cup {NumStr(n) : n \in (-MaxRawInt..MaxRawInt) \cup Sentinels}
        \cup {JInt(n) : n \in (-MaxRawInt..MaxRawInt) \cup Sentinels}

InitConv ==
    /\ PipelineIdle
    /\ fc = Idle
    /\ md = Idle
    /\ af = Idle
    /\ km = Idle
    /\ cv \in {[raw |-> r, by |-> "none", out |-> Absent] : r \in RawValues}

Convert(by, out) ==
    /\ cv.by = "none"
    /\ cv' = [cv EXCEPT !.by = by, !.out = out]
    /\ UNCHANGED <<pipelineVars, af, km, fc, md>>

ConvAcs5 == Convert("get_census_acs5", convert_acs5(cv.raw))
ConvDecennial == Convert("get_census_decennial_2020", convert_decennial(cv.raw))
ConvIncome == Convert("get_detailed_income_distribution", convert_income(cv.raw))
ConvEmployment == Convert("get_employment_by_industry", convert_employment(cv.raw))
ConvCensusValue == Convert("convert_census_value", convert_census_value(cv.raw))

NextConv ==
    \/ ConvAcs5
    \/ ConvDecennial
    \/ ConvIncome
    \/ ConvEmployment
    \/ ConvCensusValue

SpecConv == InitConv /\ [][NextConv]_vars

\* C5: in every Raw Fetcher and in convert_census_value, a raw value that is
\* the text of a Census sentinel code (-666666666, -888888888, -999999999)
\* converts to null, never to a number.
C5_SentinelToNull ==
    (cv.by # "none" /\ cv.raw.t = "numstr" /\ cv.raw.v \in Sentinels)
        => cv.out = Null

(***************************************************************************)
(* SpecAfford: analyze_real_affordability on bounded inputs                *)
(***************************************************************************)
MaxSpecial == 2     \* brackets whose count is not 0
MaxCount == 2       \* largest household count of one bracket

BracketCodes == {income_brackets[i][1] : i \in 1..Len(income_brackets)}
BracketValues == {JInt(n) : n \in 1..MaxCount} \cup {Null, Str("N/A")}

\* Brackets on both sides of each required income the housing inputs give:
\* the lowest, those around $93,480 and $118,104, and the two highest.
SpecialCodes ==
    {"B19001_002E", "B19001_012E", "B19001_013E", "B19001_014E",
     "B19001_016E", "B19001_017E"}

\* The B19001 brackets: all 0 but at most MaxSpecial of the special ones.
BracketBlocks ==
    UNION {[special -> BracketValues] : special \in
              {S \in SUBSET SpecialCodes : Cardinality(S) <= MaxSpecial}}

RECURSIVE SumCounts(_, _)
SumCounts(block, i) ==
    IF i > Len(income_brackets) THEN 0
    ELSE LET h == OrZero(Get(block, income_brackets[i][1]))
         IN  (IF h.t = "int" THEN h.v ELSE 0) + SumCounts(block, i + 1)

FullBlock(special) ==
    [c \in BracketCodes |-> IF c \in DOMAIN special THEN special[c] ELSE JInt(0)]

\* B19001_001E as the API reports it: the sum of the brackets, the sum of the
\* other brackets when one is suppressed (here: one more), null, or text.
TotalsFor(block) ==
    {JInt(SumCounts(block, 1)), JInt(SumCounts(block, 1) + 1), Null, Str("N/A")}

CompleteIncomeBlocks ==
    UNION {{FullBlock(special) @@ ("B19001_001E" :> total) : total \in TotalsFor(special)} :
              special \in BracketBlocks}

\* A response row that ends before a bracket's column leaves its key out.
WithoutBracket(block, code) == [c \in DOMAIN block \ {code} |-> block[c]]

IncomeBlocks ==
    CompleteIncomeBlocks
        \cup {WithoutBracket(b, "B19001_003E") : b \in CompleteIncomeBlocks}

\* (median_home_value, median_gross_rent) as read from the baseline metrics.
HousingInputs ==
    {<<Null, Null>>, <<Null, JInt(2337)>>, <<JInt(492100), JInt(2337)>>,
     <<JInt(100000), JInt(2337)>>, <<JInt(1300000), Null>>, <<JInt(0), Str("N/A")>>}

FetchOf(data) == [t |-> "fetch", data |-> data, provenance |-> Null]

InitAfford ==
    /\ PipelineIdle
    /\ fc = Idle
    /\ md = Idle
    /\ cv = Idle
    /\ km = Idle
    /\ af \in {[op |-> "input", income |-> inc, median_home_value |-> h[1],
                median_gross_rent |-> h[2], out |-> Absent] :
                  inc \in {None} \cup {FetchOf(b) : b \in IncomeBlocks},
                  h \in HousingInputs}

Analyze ==
    /\ af.op = "input"
    /\ af' = [af EXCEPT !.op = "analyze_real_affordability",
                        !.out = analyze_real_affordability(
                                    af.income, af.median_home_value, af.median_gross_rent)]
    /\ UNCHANGED <<pipelineVars, cv, km, fc, md>>

NextAfford == Analyze

SpecAfford == InitAfford /\ [][NextAfford]_vars

\* C1: whenever analyze_real_affordability returns a classification,
\* can_afford + cannot_afford equals total_households, for every bracket
\* distribution and every threshold.
C1_CountsEqualTotalHouseholds ==
    af.op = "analyze_real_affordability" /\ af.out.t = "classification"
        => af.out.can_afford + af.out.cannot_afford = af.out.total_households

(***************************************************************************)
(* Spec: the scripts run one after another on one working directory        *)
(***************************************************************************)
MaxClock == 1     \* last second of the wall clock
MaxRuns == 2      \* collector runs in one behaviour

NumStrs(values) == [c \in DOMAIN values |-> NumStr(values[c])]

\* A complete ACS response.
AcsPayloadFull ==
    NumStrs([B01003_001E |-> 8, B19013_001E |-> 4, B25077_001E |-> 12, B25064_001E |-> 1,
             B25001_001E |-> 4, B25003_002E |-> 2, B25003_003E |-> 1, B25004_001E |-> 1,
             B08301_001E |-> 4, B08301_010E |-> 1, B08301_021E |-> 1, B08303_001E |-> 4,
             B15003_022E |-> 1, B15003_023E |-> 1, B15003_024E |-> 0, B15003_025E |-> 0])

\* Other housing counts, and a population the API returns as text.
AcsPayloadTextPopulation ==
    [AcsPayloadFull EXCEPT !["B01003_001E"] = Str("N/A"), !["B25003_002E"] = NumStr(1)]

\* Every estimate suppressed.
AcsPayloadSuppressed == [c \in AcsVariables |-> NumStr(Sentinel1)]

Ok(values) == [t |-> "ok", values |-> values]
HttpError == [t |-> "error"]
ShortRows == [t |-> "short"]

AcsResponses ==
    {HttpError, Ok(AcsPayloadFull), Ok(AcsPayloadTextPopulation), Ok(AcsPayloadSuppressed)}
DecennialResponses == {ShortRows, Ok([P1_001N |-> NumStr(6)])}
IncomePayload ==
    [c \in IncomeVariables |->
        NumStr(CASE c = "B19001_001E" -> 3
                 [] c \in {"B19001_002E", "B19001_013E", "B19001_017E"} -> 1
                 [] OTHER -> 0)]
IncomeResponses == {HttpError, Ok(IncomePayload)}
EmploymentPayload ==
    [c \in EmploymentVariables |-> NumStr(IF c = "C24010_001E" THEN 4 ELSE 1)]
EmploymentResponses == {ShortRows, Ok(EmploymentPayload)}

\* The seconds at which a run's two fetchers save (ts) and build their
\* provenance (now): the clock only moves forward.
RunTimes ==
    {t \in [1..4 -> clock..MaxClock] : \A i \in 1..3 : t[i] <= t[i + 1]}

Init ==
    /\ PipelineIdle
    /\ fc = Idle
    /\ md = Idle
    /\ cv = Idle
    /\ af = Idle
    /\ km = Idle

\* A run's inputs: without the credential no request is made; with it, each
\* fetcher gets some response.  Time may pass before and during the run.
RunInputs(responses1, responses2) ==
    {[api_key |-> FALSE, r1 |-> HttpError, r2 |-> HttpError, t |-> [i \in 1..4 |-> clock]]}
        \cup {[api_key |-> TRUE, r1 |-> r1, r2 |-> r2, t |-> t] :
                 r1 \in responses1, r2 \in responses2, t \in RunTimes}

\* collect_hanover_data.main
CollectMain ==
    /\ runs < MaxRuns
    /\ \E in \in RunInputs(AcsResponses, DecennialResponses) :
        LET f1 == get_census_acs5(raw, in.api_key, in.r1, in.t[1], in.t[2])
            f2 == get_census_decennial_2020(f1.files, in.api_key, in.r2, in.t[3], in.t[4])
            acs == f1.result
            decennial == f2.result
            metrics == calculate_key_metrics(acs, decennial)
        IN  /\ clock' = in.t[4]
            /\ raw' = f2.files
            /\ IF metrics = Raised
               THEN UNCHANGED <<baseline, csv>>
               ELSE /\ baseline' = save_results_doc(acs, decennial, metrics)
                    /\ csv' = save_results_csv(csv, metrics)
            /\ lastRun' = [op |-> "collect_main",
                           api_key |-> in.api_key,
                           requests |-> f1.requests + f2.requests,
                           fetch_failed |-> (acs = None \/ decennial = None),
                           metrics |-> metrics,
                           overwritten |-> Overwritten(raw, f2.files),
                           outcome |-> IF metrics = Raised THEN "raised" ELSE "returned"]
    /\ runs' = runs + 1
    /\ UNCHANGED <<analysisRaw, empdoc, report, edited, cv, af, km, fc, md>>

\* get_real_employment_data.main
EmploymentMain ==
    /\ runs < MaxRuns
    /\ \E in \in RunInputs(IncomeResponses, EmploymentResponses) :
        LET f1 == get_detailed_income_distribution(raw, in.api_key, in.r1, in.t[1], in.t[2])
            f2 == get_employment_by_industry(f1.files, in.api_key, in.r2, in.t[3], in.t[4])
            income_data == f1.result
            employment_data == f2.result
            b == read_baseline(baseline)
            affordability == analyze_real_affordability(
                                 income_data, b.median_home_value, b.median_gross_rent)
        IN  /\ clock' = in.t[4]
            /\ raw' = f2.files
            /\ IF affordability = Raised
               THEN UNCHANGED empdoc
               ELSE empdoc' = employment_results_doc(income_data, employment_data, affordability)
            /\ lastRun' = [op |-> "employment_main",
                           api_key |-> in.api_key,
                           requests |-> f1.requests + f2.requests,
                           fetch_failed |-> (income_data = None \/ employment_data = None),
                           overwritten |-> Overwritten(raw, f2.files),
                           outcome |-> IF affordability = Raised THEN "raised" ELSE "returned"]
    /\ runs' = runs + 1
    /\ UNCHANGED <<analysisRaw, baseline, csv, report, edited, cv, af, km, fc, md>>

\* Faulty variant of Audit: the audit also clears analysis/data/raw.
AuditClearingMisplaced ==
    LET result == audit_main(baseline, empdoc, raw, analysisRaw)
    IN  /\ report' = IF result.outcome = "raised" THEN report
                      ELSE [t |-> "report", overall |-> result.overall]
        /\ analysisRaw' = NoFiles
        /\ lastRun' = result
        /\ UNCHANGED <<clock, raw, baseline, csv, empdoc, runs, edited, cv, af, km, fc, md>>

\* audit_provenance.main
Audit ==
    LET result == audit_main(baseline, empdoc, raw, analysisRaw)
    IN  /\ report' = IF result.outcome = "raised" THEN report
                      ELSE [t |-> "report", overall |-> result.overall]
        /\ lastRun' = result
        /\ UNCHANGED <<clock, raw, analysisRaw, baseline, csv, empdoc, runs, edited, cv, af, km, fc, md>>

Next ==
    \/ CollectMain
    \/ EmploymentMain
    \/ Audit

Spec == Init /\ [][Next]_vars

(***************************************************************************)
(* SpecMetrics: calculate_key_metrics on the blocks the two fetchers build  *)
(* from bounded API responses                                              *)
(***************************************************************************)
Suppressed == NumStr(Sentinel1)

\* What the API may return for each ACS variable: the value of the Hanover
\* scenario, the suppression sentinel, 0 where a count can be 0, and for the
\* worker total the Census code -222222222, which the fetcher's list of
\* sentinel strings does not hold.
AcsPayloads ==
    [B01003_001E : {NumStr(28089), NumStr(0), Suppressed},
     B19013_001E : {NumStr(110000), NumStr(0), Suppressed},
     B25077_001E : {NumStr(492100), Suppressed},
     B25064_001E : {NumStr(2337), Suppressed},
     B25001_001E : {NumStr(8850), Suppressed},
     B25003_002E : {NumStr(5500), Suppressed},
     B25003_003E : {NumStr(2800), NumStr(0), Suppressed},
     B25004_001E : {NumStr(550)},
     B08301_001E : {NumStr(15000), NumStr(0), NumStr(-222222222), Suppressed},
     B08301_010E : {NumStr(600), NumStr(0), Suppressed},
     B08301_021E : {NumStr(2000), Suppressed},
     B08303_001E : {NumStr(13000)},
     B15003_022E : {NumStr(5000)},
     B15003_023E : {NumStr(3000)},
     B15003_024E : {NumStr(500)},
     B15003_025E : {NumStr(400), Suppressed}]

MetricAcsResponses == {HttpError} \cup {Ok(p) : p \in AcsPayloads}
MetricDecennialResponses ==
    {ShortRows, Ok([P1_001N |-> NumStr(26208)]), Ok([P1_001N |-> Suppressed])}

InitMetrics ==
    /\ PipelineIdle
    /\ fc = Idle
    /\ md = Idle
    /\ cv = Idle
    /\ af = Idle
    /\ km \in {[op |-> "input",
                acs |-> get_census_acs5(NoFiles, TRUE, r1, 0, 0).result,
                decennial |-> get_census_decennial_2020(NoFiles, TRUE, r2, 0, 0).result,
                out |-> Absent] :
                  r1 \in MetricAcsResponses, r2 \in MetricDecennialResponses}

Calculate ==
    /\ km.op = "input"
    /\ km' = [km EXCEPT !.op = "calculate_key_metrics",
                        !.out = calculate_key_metrics(km.acs, km.decennial)]
    /\ UNCHANGED <<pipelineVars, cv, af, fc, md>>

NextMetrics == Calculate

SpecMetrics == InitMetrics /\ [][NextMetrics]_vars

(***************************************************************************)
(* SpecFetch: one call of each Raw Fetcher, with and without the           *)
(* credential, on every kind of response, into an empty raw directory and  *)
(* into one that already holds an artifact                                 *)
(***************************************************************************)
Fetchers ==
    [get_census_acs5 |-> [label |-> AcsLabel, responses |-> AcsResponses],
     get_census_decennial_2020 |->
        [label |-> DecennialLabel, responses |-> DecennialResponses],
     get_detailed_income_distribution |->
        [label |-> IncomeLabel, responses |-> IncomeResponses],
     get_employment_by_industry |->
        [label |-> EmploymentLabel, responses |-> EmploymentResponses]]

\* The raw directory before the call: empty, or holding an artifact of the
\* same fetcher written at second 0.
FilesBefore(label) == {NoFiles, raw_path(label, 0) :> [P1_001N |-> NumStr(5)]}

FetchInputs ==
    {[op |-> "input", fetcher |-> f, api_key |-> k, response |-> r, before |-> b,
      ts |-> ts, now |-> now, out |-> Absent] :
        f \in DOMAIN Fetchers, k \in BOOLEAN,
        r \in UNION {Fetchers[g].responses \cup {HttpError, ShortRows} : g \in DOMAIN Fetchers},
        b \in UNION {FilesBefore(Fetchers[g].label) : g \in DOMAIN Fetchers},
        ts \in 0..MaxClock, now \in 0..MaxClock}

InitFetch ==
    /\ PipelineIdle
    /\ md = Idle
    /\ cv = Idle
    /\ af = Idle
    /\ km = Idle
    /\ fc \in {i \in FetchInputs :
                  /\ i.response \in Fetchers[i.fetcher].responses \cup {HttpError, ShortRows}
                  /\ i.before \in FilesBefore(Fetchers[i.fetcher].label)
                  /\ i.ts <= i.now}

Fetch(fetcher, out) ==
    /\ fc.op = "input"
    /\ fc.fetcher = fetcher
    /\ fc' = [fc EXCEPT !.op = "fetch", !.out = out]
    /\ UNCHANGED <<pipelineVars, cv, af, km, md>>

FetchAcs5 ==
    Fetch("get_census_acs5",
          get_census_acs5(fc.before, fc.api_key, fc.response, fc.ts, fc.now))
FetchDecennial ==
    Fetch("get_census_decennial_2020",
          get_census_decennial_2020(fc.before, fc.api_key, fc.response, fc.ts, fc.now))
FetchIncome ==
    Fetch("get_detailed_income_distribution",
          get_detailed_income_distribution(fc.before, fc.api_key, fc.response, fc.ts, fc.now))
FetchEmployment ==
    Fetch("get_employment_by_industry",
          get_employment_by_industry(fc.before, fc.api_key, fc.response, fc.ts, fc.now))

NextFetch ==
    \/ FetchAcs5
    \/ FetchDecennial
    \/ FetchIncome
    \/ FetchEmployment

SpecFetch == InitFetch /\ [][NextFetch]_vars

(***************************************************************************)
(* SpecTidy: tidy_raw_files and the audit's scan on small raw directories  *)
(***************************************************************************)
MaxPayload == 2     \* distinct file contents

TidyPaths ==
    {raw_path(AcsLabel, 0), raw_path(DecennialLabel, 0),
     with_suffix(raw_path(AcsLabel, 0), 1)}
TidyPayloads == {[P1_001N |-> NumStr(n)] : n \in 1..MaxPayload}

\* Every directory of at most three files with those names and contents.
TidyDirs == UNION {[paths -> TidyPayloads] : paths \in SUBSET TidyPaths}

InitTidy ==
    /\ clock = 0
    /\ raw \in TidyDirs
    /\ analysisRaw \in TidyDirs
    /\ baseline = Absent
    /\ csv = Absent
    /\ empdoc = Absent
    /\ report = Absent
    /\ lastRun = Idle
    /\ runs = 0
    /\ edited = FALSE
    /\ cv = Idle
    /\ af = Idle
    /\ km = Idle
    /\ fc = Idle
    /\ md = Idle

\* Every order in which a directory's files can be listed.
Listings(S) ==
    {listing \in [1..Cardinality(S) -> S] :
        \A i, j \in 1..Cardinality(S) : listing[i] = listing[j] => i = j}

\* tidy_raw_files.main
Tidy ==
    /\ runs < MaxRuns
    /\ \E listing \in Listings(DOMAIN analysisRaw) :
          LET result == tidy_main(raw, analysisRaw, listing)
          IN  /\ raw' = result.files
              /\ analysisRaw' = result.analysis_files
              /\ lastRun' = result
    /\ runs' = runs + 1
    /\ UNCHANGED <<clock, baseline, csv, empdoc, report, edited, cv, af, km, fc, md>>

NextTidy ==
    \/ Tidy
    \/ Audit

SpecTidy == InitTidy /\ [][NextTidy]_vars

(***************************************************************************)
(* SpecIngest: ingest_md_labor_release on every release text of the shape  *)
(* above, with and without an output file of an earlier run                *)
(***************************************************************************)
SectorEntries == EntryList(<<[sector |-> "Construction", jobs_change |-> 2700]>>)

ReleaseTexts ==
    [jobs_change_total : {Null, Str(","), NumStr(3600)},
     federal_jobs_change : {Null, Str(","), NumStr(2500)},
     federal_jobs_change_ytd : {Null, Str(","), NumStr(15100)},
     unemployment_rate : {Null, JFloat(36, 10, 0)},
     national_unemployment_rate : {Null, JFloat(43, 10, 0)},
     top_gainers : {Null, EntryList(<<>>), SectorEntries},
     top_losers : {Null, EntryList(<<>>), SectorEntries}]

\* The release as published: everything is found.
CompleteText ==
    [jobs_change_total |-> NumStr(3600), federal_jobs_change |-> NumStr(2500),
     federal_jobs_change_ytd |-> NumStr(15100),
     unemployment_rate |-> JFloat(36, 10, 0),
     national_unemployment_rate |-> JFloat(43, 10, 0),
     top_gainers |-> SectorEntries, top_losers |-> SectorEntries]

\* The output of a run at second 0 on the complete text.
EarlierOutput == ingest_out(CompleteText, 0)

InitIngest ==
    /\ PipelineIdle
    /\ fc = Idle
    /\ cv = Idle
    /\ af = Idle
    /\ km = Idle
    /\ md \in {[op |-> "input", source |-> s, processed |-> o, before |-> o,
                 exit |-> 0, wrote |-> FALSE] :
                   s \in {Absent} \cup ReleaseTexts, o \in {Absent, EarlierOutput}}

\* python scripts/ingest_md_labor_release.py, at a second after 0
Ingest ==
    /\ md.op = "input"
    /\ LET r == ingest_main(md.source, md.processed, 1)
       IN  md' = [md EXCEPT !.op = "ingest_main", !.exit = r.exit,
                            !.wrote = r.wrote, !.processed = r.processed]
    /\ UNCHANGED <<pipelineVars, cv, af, km, fc>>

NextIngest == Ingest

SpecIngest == InitIngest /\ [][NextIngest]_vars

(***************************************************************************)
(* SpecEnv: the same scripts, and a user who edits the working directory   *)
(* by hand, once in a behaviour; after the edit only the audit runs        *)
(***************************************************************************)
HasVacancy(doc) ==
    /\ doc.t = "doc"
    /\ doc.calculated_metrics.t = "dict"
    /\ "vacancy_rate" \in DOMAIN doc.calculated_metrics.m

\* Values a stored vacancy_rate n/d is altered to: half the audit's tolerance
\* away, twice the tolerance away, one percentage point away.
DriftValues(v) == {JFloat(v.n, v.d, 1), JFloat(v.n, v.d, 4), JFloat(v.n + v.d, v.d, 0)}

\* The vacancy_rate the collector derived from the document's own ACS block.
DerivedVacancy(doc) ==
    vacancy_rate(doc.raw_census_acs5.data["B25001_001E"],
                 doc.raw_census_acs5.data["B25003_002E"],
                 doc.raw_census_acs5.data["B25003_003E"])

\* Drift injection: the stored vacancy_rate of the baseline document, so far
\* as the collector wrote it, is altered by hand; nothing else changes.
DriftInject ==
    /\ ~edited
    /\ HasVacancy(baseline)
    /\ LET stored == baseline.calculated_metrics.m["vacancy_rate"]
       IN  /\ stored = DerivedVacancy(baseline)
           /\ \E v \in DriftValues(stored) :
                 baseline' = [baseline EXCEPT !.calculated_metrics.m["vacancy_rate"] = v]
    /\ lastRun' = [op |-> "drift"]
    /\ edited' = TRUE
    /\ UNCHANGED <<clock, raw, analysisRaw, csv, empdoc, report, runs, cv, af, km, fc, md>>

\* The raw artifacts the provenances embedded in the two documents name.
ReferencedBy(provenance) ==
    IF provenance = None THEN {} ELSE {provenance.raw_saved_to}

BlockProvenance(block) == IF block = None THEN None ELSE block.provenance

ReferencedRaw ==
    (IF baseline.t # "doc" THEN {}
     ELSE ReferencedBy(BlockProvenance(baseline.raw_census_acs5))
            \cup ReferencedBy(BlockProvenance(baseline.raw_census_decennial)))
    \cup
    (IF empdoc.t # "doc" THEN {}
     ELSE ReferencedBy(empdoc.income_provenance)
            \cup ReferencedBy(empdoc.employment_provenance))

\* A raw artifact that a document refers to is deleted or moved away.
RemoveRaw ==
    /\ ~edited
    /\ \E p \in DOMAIN raw \cap ReferencedRaw :
          raw' = [q \in DOMAIN raw \ {p} |-> raw[q]]
    /\ lastRun' = [op |-> "remove_raw"]
    /\ edited' = TRUE
    /\ UNCHANGED <<clock, analysisRaw, baseline, csv, empdoc, report, runs, cv, af, km, fc, md>>

\* The raw artifact the baseline document names for its ACS block.
BaselineAcsRaw ==
    IF baseline.t # "doc" THEN {}
    ELSE ReferencedBy(BlockProvenance(baseline.raw_census_acs5))

\* A copy of the baseline's ACS raw artifact is put under analysis/data/raw.
MisplaceRaw ==
    /\ ~edited
    /\ \E p \in DOMAIN raw \cap BaselineAcsRaw :
          analysisRaw' = (p :> raw[p]) @@ analysisRaw
    /\ lastRun' = [op |-> "misplace_raw"]
    /\ edited' = TRUE
    /\ UNCHANGED <<clock, raw, baseline, csv, empdoc, report, runs, cv, af, km, fc, md>>

\* A derived document is damaged by hand: the baseline document is no longer
\* a JSON object, or the affordability block of the employment document is
\* left with "provenance": null.
CorruptDoc ==
    /\ ~edited
    /\ \/ /\ baseline.t = "doc"
          /\ baseline' = Unparseable
          /\ UNCHANGED empdoc
       \/ /\ empdoc.t = "doc"
          /\ empdoc' = [empdoc EXCEPT !.affordability_analysis = NullProvenanceBlock]
          /\ UNCHANGED baseline
    /\ lastRun' = [op |-> "corrupt_doc"]
    /\ edited' = TRUE
    /\ UNCHANGED <<clock, raw, analysisRaw, csv, report, runs, cv, af, km, fc, md>>

NextEnv ==
    \/ CorruptDoc
    \/ (~edited /\ CollectMain)
    \/ (~edited /\ EmploymentMain)
    \/ Audit
    \/ DriftInject
    \/ RemoveRaw
    \/ MisplaceRaw

SpecEnv == Init /\ [][NextEnv]_vars

(***************************************************************************)
(* Claims about the collector runs (Spec)                                  *)
(***************************************************************************)
\* C2: if a Census fetch of a baseline collector run fails, the run halts and
\* the previously persisted data/hanover_real_data.json is left as it was.
C2_FailedFetchLeavesDocument ==
    [][(lastRun'.op = "collect_main" /\ lastRun'.fetch_failed /\ baseline.t = "doc")
          => (lastRun'.outcome = "raised" /\ baseline' = baseline)]_vars

\* C3: if calculate_key_metrics yields no metric at all (None or an empty
\* mapping), the run raises and writes no derived metrics document.
C3_ZeroMetricsFailFast ==
    [][(lastRun'.op = "collect_main" /\ lastRun'.metrics # Raised
            /\ ~MetricsTruthy(lastRun'.metrics))
          => (lastRun'.outcome = "raised" /\ baseline' = baseline)]_vars

Resolves(provenance) == provenance # None /\ provenance.raw_saved_to \in DOMAIN raw

SameSecond(provenance) ==
    provenance # None => provenance.retrieved_at = provenance.raw_saved_to.ts

\* C6: the retrieval timestamp recorded in every provenance (retrieved_at) is
\* the timestamp in the stored file's name (raw_saved_to), however much time
\* passes between writing the file and building the provenance.
C6_RetrievedAtIsFileTimestamp ==
    /\ baseline.t = "doc" =>
          /\ baseline.raw_census_acs5 # None
                => SameSecond(baseline.raw_census_acs5.provenance)
          /\ baseline.raw_census_decennial # None
                => SameSecond(baseline.raw_census_decennial.provenance)
    /\ empdoc.t = "doc" =>
          /\ SameSecond(empdoc.income_provenance)
          /\ SameSecond(empdoc.employment_provenance)

\* C7 as stated: save never overwrites an existing file, so every earlier
\* raw artifact keeps its content after any sequence of save calls.
C7_ArtifactsNeverOverwritten ==
    [][\A p \in DOMAIN raw : p \in DOMAIN raw' /\ raw'[p] = raw[p]]_vars

\* C7, amended: a raw artifact is never removed by a save, and its content is
\* replaced only by a save made in the very second its file name carries
\* (same label, same second); every other artifact keeps its content.
C7_OverwriteOnlyWithinSameSecond ==
    [][\A p \in DOMAIN raw :
          /\ p \in DOMAIN raw'
          /\ raw'[p] # raw[p] => (clock <= p.ts /\ p.ts <= clock')]_vars

C7_Witness ==
    /\ lastRun.op \in {"collect_main", "employment_main"}
    /\ lastRun.overwritten # {}
    /\ \E p \in DOMAIN raw : p \notin lastRun.overwritten

(***************************************************************************)
(* Claims about the audit                                                  *)
(***************************************************************************)
VacancyLine(pass) ==
    [check |-> "vacancy_rate consistent with raw B25001/B25003", pass |-> pass]

Reported(lines, line) == \E i \in 1..Len(lines) : lines[i] = line

\* The stored value is a number more than the tolerance away from the value
\* the given counts yield.
DisagreesBeyondTolerance(stored, derived) ==
    /\ IsIntOrFloat(stored)
    /\ LET a == AsRat(stored)
           b == AsRat(derived)
       IN  a.n * b.d # b.n * a.d \/ Abs(a.e - b.e) > 2

VacancyDrifted ==
    /\ HasVacancy(baseline)
    /\ DisagreesBeyondTolerance(baseline.calculated_metrics.m["vacancy_rate"],
                                DerivedVacancy(baseline))

\* C8: given a baseline document whose stored vacancy_rate was altered while
\* its raw inputs are unchanged, the audit's recomputation check reports FAIL
\* for that document and the audit's exit code is non-zero.
C8_DriftIsReported ==
    (lastRun.op = "audit_main" /\ VacancyDrifted)
        => /\ Reported(lastRun.lines1, VacancyLine(FALSE))
           /\ ~lastRun.ok1
           /\ lastRun.exit # 0

C8_Witness == lastRun.op = "audit_main" /\ VacancyDrifted

\* The housing counts of the raw artifact the ACS provenance refers to, as the
\* fetcher converts them.
ReferencedCounts ==
    LET payload == raw[baseline.raw_census_acs5.provenance.raw_saved_to]
    IN  [total_housing |-> convert_acs5(payload["B25001_001E"]),
         owner_occ |-> convert_acs5(payload["B25003_002E"]),
         renter_occ |-> convert_acs5(payload["B25003_003E"])]

ReferencedArtifactDisagrees ==
    /\ HasVacancy(baseline)
    /\ baseline.raw_census_acs5 # None
    /\ baseline.raw_census_acs5.provenance.raw_saved_to \in DOMAIN raw
    /\ LET c == ReferencedCounts
       IN  /\ IsInt(c.total_housing) /\ IsInt(c.owner_occ) /\ IsInt(c.renter_occ)
           /\ c.total_housing.v # 0
           /\ DisagreesBeyondTolerance(
                  baseline.calculated_metrics.m["vacancy_rate"],
                  vacancy_rate(c.total_housing, c.owner_occ, c.renter_occ))

\* C9: the audit recomputes vacancy_rate from the raw artifact the document's
\* provenance refers to: if that artifact's housing counts yield a
\* vacancy_rate that disagrees with the stored one, the audit reports FAIL
\* for the document.
C9_RecomputedFromReferencedArtifact ==
    (lastRun.op = "audit_main" /\ ReferencedArtifactDisagrees) => ~lastRun.ok1

Dangling(provenance) == provenance # None /\ provenance.raw_saved_to \notin DOMAIN raw

SomeProvenanceDangling ==
    \/ /\ baseline.t = "doc"
       /\ \/ /\ baseline.raw_census_acs5 # None
             /\ Dangling(baseline.raw_census_acs5.provenance)
          \/ /\ baseline.raw_census_decennial # None
             /\ Dangling(baseline.raw_census_decennial.provenance)
    \/ /\ empdoc.t = "doc"
       /\ (Dangling(empdoc.income_provenance) \/ Dangling(empdoc.employment_provenance))

\* C10: for each audited document and every provenance embedded in it (ACS,
\* Decennial, income_provenance, employment_provenance), if the provenance's
\* raw storage path does not resolve to an existing raw artifact, the audit
\* records a FAIL and its exit code is non-zero.
C10_DanglingProvenanceFails ==
    (lastRun.op = "audit_main" /\ SomeProvenanceDangling)
        => (lastRun.exit # 0 /\ ~(lastRun.ok1 /\ lastRun.ok2))

\* C11: the audit's exit code is 0 exactly when every hard check on the two
\* derived documents passed and 1 otherwise, the report's Overall line says
\* PASS exactly when the exit code is 0, and misplaced or duplicate raw files
\* do not enter the exit code.
C11_ExitCodeReflectsHardChecks ==
    (lastRun.op = "audit_main" /\ lastRun.outcome = "returned")
        => /\ lastRun.exit \in {0, 1}
           /\ lastRun.exit = 0 <=> (lastRun.ok1 /\ lastRun.ok2)
           /\ lastRun.exit = 0 => (AllPass(lastRun.lines1) /\ AllPass(lastRun.lines2))
           /\ lastRun.overall = "PASS" <=> lastRun.exit = 0
           /\ report = [t |-> "report", overall |-> lastRun.overall]

\* An audit that passed although it found misplaced and duplicate raw files.
C11_Witness ==
    /\ lastRun.op = "audit_main"
    /\ lastRun.exit = 0
    /\ lastRun.misplaced # {}
    /\ lastRun.duplicates # {}

\* C12: whatever the two derived documents hold (missing, unparseable, blocks
\* of unexpected type, null provenance fields) and whatever the raw
\* directories hold, the audit does not raise: it returns and has written
\* its report.
C12_AuditNeverRaises ==
    lastRun.op = "audit_main"
        => /\ lastRun.outcome = "returned"
           /\ report = [t |-> "report", overall |-> lastRun.overall]

\* C13: an audit run is read-only with respect to what it verifies: it leaves
\* every derived document and every raw artifact as it was; the only file it
\* writes is data/provenance_audit_report.md.
C13_AuditIsReadOnly ==
    [][lastRun'.op = "audit_main"
          => /\ raw' = raw
             /\ analysisRaw' = analysisRaw
             /\ baseline' = baseline
             /\ csv' = csv
             /\ empdoc' = empdoc]_vars

\* The audit has run and written its report over documents and raw files in
\* both raw directories.
C13_Witness ==
    /\ lastRun.op = "audit_main"
    /\ report.t = "report"
    /\ baseline.t = "doc"
    /\ empdoc.t = "doc"
    /\ analysisRaw # NoFiles

(***************************************************************************)
(* Claims about calculate_key_metrics (SpecMetrics)                        *)
(***************************************************************************)
Calculated == km.op = "calculate_key_metrics"

\* The observation calculate_key_metrics is given for a variable.
Observation(code) ==
    IF code = "P1_001N"
    THEN (IF km.decennial = None THEN Null ELSE Get(km.decennial.data, code))
    ELSE (IF km.acs = None THEN Null ELSE Get(km.acs.data, code))

\* An observation is available when it is a number that is no sentinel code.
Available(code) ==
    LET v == Observation(code)
    IN  v.t = "int" /\ v.v \notin Sentinels

Positive(code) == Available(code) /\ Observation(code).v > 0

Produced(metric) == km.out.t = "dict" /\ metric \in DOMAIN km.out.m

\* The observations each metric is computed from.
MetricInputs ==
    [population_2023 |-> {"B01003_001E"},
     population_2020 |-> {"P1_001N"},
     growth_rate |-> {"B01003_001E", "P1_001N"},
     vacancy_rate |-> {"B25001_001E", "B25003_002E", "B25003_003E"},
     total_housing_units |-> {"B25001_001E"},
     occupied_units |-> {"B25003_002E", "B25003_003E"},
     median_income |-> {"B19013_001E"},
     median_home_value |-> {"B25077_001E"},
     price_to_income_ratio |-> {"B19013_001E", "B25077_001E"},
     affordable_home_price |-> {"B19013_001E"},
     median_gross_rent |-> {"B25064_001E"},
     total_workers |-> {"B08301_001E"},
     public_transit_rate |-> {"B08301_001E", "B08301_010E"},
     work_from_home_rate |-> {"B08301_001E", "B08301_021E"},
     college_plus_rate |-> {"B01003_001E", "B15003_022E", "B15003_023E",
                            "B15003_024E", "B15003_025E"}]

UsedVariables == UNION {MetricInputs[m] : m \in DOMAIN MetricInputs}

\* Exactly one observation is missing and every other one is a positive number.
SingleMissing ==
    /\ km.acs # None
    /\ Cardinality({c \in UsedVariables : Observation(c) = Null}) = 1
    /\ \A c \in UsedVariables : Observation(c) = Null \/ Positive(c)

\* C14: when a single input observation is missing, calculate_key_metrics
\* does not raise, omits the metrics that depend on that input and produces
\* every other metric.
C14_SingleMissingInputOmitsOnlyDependents ==
    (Calculated /\ SingleMissing)
        => /\ km.out.t = "dict"
           /\ \A m \in DOMAIN MetricInputs :
                 Produced(m) <=> (\A c \in MetricInputs[m] : Available(c))

\* C18: vacancy_rate = (total_housing_units - (owner_occupied +
\* renter_occupied)) / total_housing_units * 100 is output whenever the three
\* inputs are present (8,850 / 5,500 / 2,800 gives about 6.21) and is omitted
\* whenever one of them is missing.
C18_VacancyRateWhenInputsPresent ==
    (Calculated /\ km.acs # None)
        => LET th == Observation("B25001_001E")
               oo == Observation("B25003_002E")
               rr == Observation("B25003_003E")
               present == Available("B25001_001E") /\ Available("B25003_002E")
                             /\ Available("B25003_003E")
           IN  /\ present =>
                    /\ Produced("vacancy_rate")
                    /\ km.out.m["vacancy_rate"]
                          = JFloat((th.v - (oo.v + rr.v)) * 100, th.v, 0)
               /\ ~present => ~Produced("vacancy_rate")
               /\ (th = JInt(8850) /\ oo = JInt(5500) /\ rr = JInt(2800)) =>
                    LET v == km.out.m["vacancy_rate"]
                    IN  6205 * v.d <= v.n * 1000 /\ v.n * 1000 < 6215 * v.d

\* C19: price_to_income_ratio = median_home_value / median_income is output
\* only when median_income is present and not zero; when median_income is
\* zero or missing the metric is omitted and nothing is divided by zero.
C19_RatioOnlyForNonZeroIncome ==
    (Calculated /\ km.acs # None)
        => LET mi == Observation("B19013_001E")
               mhv == Observation("B25077_001E")
           IN  /\ km.out # Raised
               /\ Produced("price_to_income_ratio") =>
                    /\ Available("B19013_001E") /\ mi.v # 0
                    /\ km.out.m["price_to_income_ratio"] = JFloat(mhv.v, mi.v, 0)
               /\ (mi = Null \/ mi = JInt(0)) => ~Produced("price_to_income_ratio")

\* Metrics were calculated from a zero median income and a known home value.
C19_Witness ==
    /\ Calculated
    /\ Observation("B19013_001E") = JInt(0)
    /\ Observation("B25077_001E") = JInt(492100)
    /\ km.out.t = "dict"
    /\ ~Produced("price_to_income_ratio")

\* C20: growth_rate = (population_latest - population_baseline) /
\* population_baseline * 100 is output exactly when both the ACS population
\* and the 2020 Decennial population are available (28,089 vs 26,208 gives
\* about 7.18), and is omitted otherwise, also when the Decennial fetch
\* failed or its value is unavailable.
C20_GrowthRateExactlyWhenBothAvailable ==
    (Calculated /\ km.acs # None /\ Observation("B01003_001E") # JInt(0))
        => LET pop == Observation("B01003_001E")
               pop2020 == Observation("P1_001N")
               both == Available("B01003_001E") /\ Available("P1_001N")
           IN  /\ Produced("growth_rate") <=> both
               /\ both => km.out.m["growth_rate"] = Percent(pop.v - pop2020.v, pop2020.v)
               /\ (pop = JInt(28089) /\ pop2020 = JInt(26208)) =>
                    LET g == km.out.m["growth_rate"]
                    IN  7175 * g.d <= g.n * 100000 /\ g.n * 100000 < 7185 * g.d

(***************************************************************************)
(* Claims about analyze_real_affordability (SpecAfford)                    *)
(***************************************************************************)
Analyzed == af.op = "analyze_real_affordability"
Classified == Analyzed /\ af.out.t = "classification"

\* A housing cost input is usable when it is a number above 0.
Usable(x) == x.t = "int" /\ x.v > 0

\* C15: if neither median gross rent nor median home value is available from
\* the baseline metrics, the analyzer fails with an error (DataUnavailableError)
\* and returns no classification.
C15_NoHousingCostFails ==
    (Analyzed /\ af.income # None
        /\ af.median_home_value = Null /\ af.median_gross_rent = Null)
        => af.out = Raised

\* Thousand times the required annual income the two inputs call for:
\* monthly cost * 12 / 0.30 = 40 * monthly cost, the monthly cost being the
\* greater of the rent and 0.6% of the home value.
Max(a, b) == IF a >= b THEN a ELSE b

ExpectedRequiredTimes1000 ==
    Max(IF Usable(af.median_gross_rent) THEN 40000 * af.median_gross_rent.v ELSE 0,
        IF Usable(af.median_home_value) THEN 240 * af.median_home_value.v ELSE 0)

\* C16: with at least one of rent and home value available, the monthly
\* housing cost is the greater of the rent and 0.6% of the home value and the
\* required annual income is that cost * 12 / 0.30; home value 492,100 with
\* rent 2,337 gives 118,104.
C16_RequiredIncomeFromGreaterCost ==
    (Analyzed /\ af.income # None
        /\ (Usable(af.median_gross_rent) \/ Usable(af.median_home_value))
        /\ Truthy(Get(af.income.data, "B19001_001E")) /\ af.out # Raised)
        => /\ af.out.t = "classification"
           /\ LET r == af.out.required_income
              IN  /\ IF r.d = 1000 THEN r.n = ExpectedRequiredTimes1000
                      ELSE r.d = 1 /\ r.n * 1000 = ExpectedRequiredTimes1000
                  /\ (af.median_home_value = JInt(492100)
                         /\ af.median_gross_rent = JInt(2337))
                        => r.n = 118104 * r.d

\* The mortgage proxy won over the rent and households were classified.
C16_Witness ==
    /\ Classified
    /\ af.median_home_value = JInt(492100)
    /\ af.median_gross_rent = JInt(2337)
    /\ af.out.can_afford > 0
    /\ af.out.cannot_afford > 0

\* The households of the brackets from i on whose upper-bound income is
\* (afford) or is not (~afford) at least the required income n/d.
RECURSIVE HouseholdsWhere(_, _, _)
HouseholdsWhere(i, required, afford) ==
    IF i > Len(income_brackets) THEN 0
    ELSE LET count == Get(af.income.data, income_brackets[i][1])
             upper == income_brackets[i][2]
             reaches == upper * required.d >= required.n
         IN  (IF count.t = "int" /\ reaches = afford THEN count.v ELSE 0)
                + HouseholdsWhere(i + 1, required, afford)

\* C17: a bracket's households are counted in can_afford if the bracket's
\* upper-bound income (300,000 for '$200,000 or more') is at least the
\* required annual income and in cannot_afford otherwise; when the required
\* income exceeds 300,000 all households are in cannot_afford.
C17_BracketsSplitAtRequiredIncome ==
    Classified
        => LET r == af.out.required_income
           IN  /\ af.out.can_afford = HouseholdsWhere(1, r, TRUE)
               /\ af.out.cannot_afford = HouseholdsWhere(1, r, FALSE)
               /\ r.n > 300000 * r.d
                     => /\ af.out.can_afford = 0
                        /\ af.out.cannot_afford
                              = HouseholdsWhere(1, r, TRUE) + HouseholdsWhere(1, r, FALSE)

\* Households of the top bracket were classified against a required income
\* above 300,000.
C17_Witness ==
    /\ Classified
    /\ af.out.required_income.n > 300000 * af.out.required_income.d
    /\ Get(af.income.data, "B19001_017E").t = "int"
    /\ Get(af.income.data, "B19001_017E").v > 0
    /\ af.out.cannot_afford > 0


(***************************************************************************)
(* Claims about the commuting metrics (SpecMetrics)                        *)
(***************************************************************************)
\* The commuter count each commuting rate is computed from.
CommuterCount ==
    [public_transit_rate |-> "B08301_010E", work_from_home_rate |-> "B08301_021E"]

\* C21: public_transit_rate and work_from_home_rate are output only when
\* total_workers > 0, and each then equals its own commuter count /
\* total_workers * 100.
C21_CommutingRatesOnlyForPositiveWorkers ==
    (Calculated /\ km.acs # None)
        => \A m \in DOMAIN CommuterCount :
              Produced(m) =>
                 LET tw == Observation("B08301_001E")
                     count == Observation(CommuterCount[m])
                 IN  /\ tw.t = "int" /\ tw.v > 0
                     /\ km.out.m[m] = JFloat(count.v * 100, tw.v, 0)

\* The same statement for a worker total that is not negative: the rates
\* are output only for a non-zero total and equal count / total * 100.
RatesForNonNegativeWorkers ==
    (Calculated /\ km.acs # None /\ Observation("B08301_001E").t = "int"
        /\ Observation("B08301_001E").v >= 0)
        => \A m \in DOMAIN CommuterCount :
              Produced(m) =>
                 LET tw == Observation("B08301_001E")
                     count == Observation(CommuterCount[m])
                 IN  /\ tw.v > 0
                     /\ km.out.m[m] = JFloat(count.v * 100, tw.v, 0)


(***************************************************************************)
(* Claims about the converted value of an observation (SpecConv)           *)
(***************************************************************************)
RawFetchers ==
    {"get_census_acs5", "get_census_decennial_2020",
     "get_detailed_income_distribution", "get_employment_by_industry"}

\* C22: for every observation a Raw Fetcher produces, the converted value is
\* a number or null, whatever raw value the API returned (numeric string,
\* sentinel code, null or non-numeric string).
C22_ConvertedValueIsNumberOrNull ==
    cv.by \in RawFetchers => (IsNull(cv.out) \/ IsNumber(cv.out))

\* The Decennial fetcher alone keeps to it: int() or None.
DecennialValueIsNumberOrNull ==
    cv.by = "get_census_decennial_2020" => (IsNull(cv.out) \/ IsNumber(cv.out))


(***************************************************************************)
(* Claims about the API credential (Spec)                                  *)
(***************************************************************************)
\* The last step was a run of one of the two collector scripts.
CollectorRan == lastRun.op \in {"collect_main", "employment_main"}

\* C23: when the API credential is absent, the Raw Fetchers report the
\* failure and issue no HTTP request, and the run stops there: it does not
\* go on to its normal end.
C23_MissingCredentialStopsRun ==
    (CollectorRan /\ ~lastRun.api_key)
        => /\ lastRun.requests = 0
           /\ lastRun.fetch_failed
           /\ lastRun.outcome # "returned"

\* The part the fetchers keep: without the credential both return None and
\* no request is made.
MissingCredentialIssuesNoRequest ==
    (CollectorRan /\ ~lastRun.api_key)
        => (lastRun.requests = 0 /\ lastRun.fetch_failed)


(***************************************************************************)
(* Claims about one fetch call (SpecFetch)                                 *)
(***************************************************************************)
FetchCalled == fc.op = "fetch"

Scanned == lastRun.op = "audit_main" /\ lastRun.outcome = "returned"

\* The raw files of the working directory, each with its directory.
AllRawFiles ==
    {Located(DataRawDir, p) : p \in DOMAIN raw}
        \cup {Located(AnalysisRawDir, p) : p \in DOMAIN analysisRaw}

ContentOf(f) == IF f.dir = DataRawDir THEN raw[f.path] ELSE analysisRaw[f.path]

\* The unordered pairs of distinct raw files of byte-identical content.
IdenticalPairs ==
    {pair \in SUBSET AllRawFiles :
        /\ Cardinality(pair) = 2
        /\ \A a, b \in pair : ContentOf(a) = ContentOf(b)}

\* How often the scan listed an unordered pair.
TimesListed(pair) ==
    Cardinality({k \in 1..Len(lastRun.pairs) :
                    {lastRun.pairs[k][1], lastRun.pairs[k][2]} = pair})

TidyRan == lastRun.op = "tidy_main"

\* Before the run, data/raw held a file of the same relative path and the
\* same content as the file rel of analysis/data/raw.
IdenticalAtDestinationBefore(rel) ==
    /\ rel \in DOMAIN lastRun.files_before
    /\ lastRun.files_before[rel] = lastRun.analysis_before[rel]

LeftInPlace(rel) ==
    rel \in DOMAIN analysisRaw /\ analysisRaw[rel] = lastRun.analysis_before[rel]

MovedBesideIdenticalContent ==
    /\ TidyRan
    /\ \E rel \in DOMAIN lastRun.analysis_before \ DOMAIN analysisRaw :
          \E q \in DOMAIN lastRun.files_before :
             lastRun.files_before[q] = lastRun.analysis_before[rel]

Contents(dir) == {dir[q] : q \in DOMAIN dir}

\* C30: tidy_raw_files never overwrites or deletes a file that exists under
\* data/raw; every content present under either directory before a run is
\* present at some path after it; a second run moves nothing further.
C30_TidyKeepsEveryFileAndIsIdempotent ==
    TidyRan
        => /\ \A q \in DOMAIN lastRun.files_before :
                 q \in DOMAIN raw /\ raw[q] = lastRun.files_before[q]
           /\ Contents(lastRun.files_before) \cup Contents(lastRun.analysis_before)
                 = Contents(raw) \cup Contents(analysisRaw)
           /\ Cardinality(DOMAIN raw) + Cardinality(DOMAIN analysisRaw)
                 = Cardinality(DOMAIN lastRun.files_before)
                      + Cardinality(DOMAIN lastRun.analysis_before)
           /\ runs >= 2 =>
                 /\ lastRun.moved = 0
                 /\ raw = lastRun.files_before
                 /\ analysisRaw = lastRun.analysis_before

\* A second run found only the duplicates the first run had left, beside a
\* file the first run had moved to a _from_analysis_ name.
C30_Witness ==
    /\ TidyRan
    /\ runs = 2
    /\ lastRun.skipped > 0
    /\ lastRun.moved = 0
    /\ \E q \in DOMAIN raw : q \notin TidyPaths


(***************************************************************************)
(* Claims about ingest_md_labor_release (SpecIngest)                       *)
(***************************************************************************)
IngestRan == md.op = "ingest_main"

\* The raw source exists and every expected metric and both sector lists
\* were located in it.
EverythingLocated ==
    /\ md.source # Absent
    /\ \A m \in IntMetrics \cup FloatMetrics \cup SectorLists : md.source[m] # Null

\* C27: ingest_md_labor_release writes data/processed/mlraug2025.json only
\* if the raw source exists and every expected metric and both sector lists
\* were located; otherwise it exits with a non-zero code and an output file
\* written earlier is left unchanged.
C27_OutputOnlyFromCompleteSource ==
    IngestRan
        => /\ md.wrote => EverythingLocated
           /\ md.processed # md.before => EverythingLocated
           /\ ~EverythingLocated =>
                 /\ md.exit # 0
                 /\ ~md.wrote
                 /\ md.processed = md.before
           /\ md.exit = 0 <=> md.wrote

\* The script ran on a release text that lacks only the list of losses
\* while the output of an earlier run existed.
C27_Witness ==
    /\ IngestRan
    /\ md.source # Absent
    /\ md.source = [CompleteText EXCEPT !.top_losers = Null]
    /\ md.before = EarlierOutput
    /\ md.processed = EarlierOutput
    /\ md.exit = 1

\* The script ran on the complete text and replaced the earlier output.
IngestReplacedOutput ==
    /\ IngestRan
    /\ md.source = CompleteText
    /\ md.before = EarlierOutput
    /\ md.wrote
    /\ md.processed # md.before


(***************************************************************************)
(* Claims about the bracket counts (SpecAfford)                            *)
(***************************************************************************)
\* C28: every one of the 16 income brackets contributes its household count
\* (null or absent counted as 0) to exactly one of can_afford and
\* cannot_afford: can_afford + cannot_afford is the sum of the bracket
\* counts, for every distribution and every threshold.
C28_EveryBracketCountedOnce ==
    Classified
        => af.out.can_afford + af.out.cannot_afford = SumCounts(af.income.data, 1)

\* Households below the required income were classified from a
\* distribution with an absent bracket, a null bracket and a reported total
\* that is not the sum of the brackets.
C28_Witness ==
    /\ Classified
    /\ af.out.cannot_afford > 0
    /\ "B19001_003E" \notin DOMAIN af.income.data
    /\ \E c \in BracketCodes \cap DOMAIN af.income.data : af.income.data[c] = Null
    /\ af.out.total_households # af.out.can_afford + af.out.cannot_afford


(***************************************************************************)
(* Claims about the summary CSV (Spec)                                     *)
(***************************************************************************)
\* The metrics the CSV row holds are those of the JSON document; without
\* metrics in the document there is no CSV.
CsvMatchesDocument ==
    IF csv = Absent
    THEN ~MetricsTruthy(baseline.calculated_metrics)
    ELSE /\ baseline.calculated_metrics.t = "dict"
         /\ csv.row = baseline.calculated_metrics.m

\* C29: after any sequence of baseline collector runs, hanover_metrics.csv
\* and the calculated_metrics block of hanover_real_data.json come from the
\* same run: once save_results has rewritten the document, the CSV holds
\* the same metrics.
C29_CsvAndDocumentFromSameRun ==
    baseline.t = "doc" => CsvMatchesDocument

\* The CSV is never older than the document in the other direction: when a
\* run wrote metrics, both files hold them.
CsvWrittenWithMetrics ==
    (lastRun.op = "collect_main" /\ lastRun.outcome = "returned"
        /\ MetricsTruthy(lastRun.metrics))
        => (csv # Absent /\ CsvMatchesDocument)

====
